---- MODULE Spec2Model ----
(***************************************************************************)
(* Verification model of the Financial-Stock-Assistant-Chatbot:            *)
(*   - the quota ledger          (src/modules/auth_manager.py)             *)
(*   - the chat history store    (src/modules/chatbot_model.py)            *)
(*   - the chatbot controller    (src/chatbot.py)                          *)
(*   - the standalone chat page  (src/pages/chatbot.py)                    *)
(* Several specifications share the variables: each exercises one          *)
(* component through its operations and leaves the others at rest.         *)
(***************************************************************************)
EXTENDS Integers, Sequences, FiniteSets, TLC

(***************************************************************************)
(* Bounds of the model                                                     *)
(***************************************************************************)
MaxDay == 2          \* calendar days the clock runs through: 0..MaxDay
MaxIncs == 6         \* IncrementUsage calls per user at the ledger interface
MaxLen == 2          \* length of a message list handed to save_history
MaxRunDay == 1       \* days the clock runs through while the controller is exercised
MaxMsgs == 4         \* a prompt is accepted while the in-memory history is shorter
MaxConcMsgs == 2     \* the same, when two sessions run side by side
MaxPageMsgs == 4     \* the same, on the standalone chat page
MaxWinLen == 4       \* characters of a "window" argument given as text
MaxWords == 3        \* words of a prompt typed into the chat box
MaxSharedIncs == 1   \* increment_usage is called while the user's own count is below this
MaxNameLen == 2      \* characters of a user name typed into the registration form
MaxAccounts == 2     \* accounts registered

(***************************************************************************)
(* Program constants                                                       *)
(***************************************************************************)
FREE_DAILY_LIMIT == 5

ROLE_USER == "user"
ROLE_ASSISTANT == "assistant"
ROLE_MODEL == "model"

None == "None"       \* Python's None
JsonNull == "null"   \* JSON's null

\* User names are character sequences, so that the file-name filter of
\* _get_chat_filepath is computed and not assumed.
Alice == <<"a", "l">>
Bob == <<"b", "o">>
Usernames == {Alice, Bob}
Alias == <<"a", ".", "l">>      \* a third name, which differs from Alice by a full stop
Passwords == {"", "pw"}

VARIABLES
    mode,        \* which component the behaviour exercises
    today,       \* the calendar date _get_today_str() reports
    db,          \* data/users.json: username -> ledger record
    ret,         \* the result of the last ledger call (observation)
    incs,        \* per user: increment_usage calls since quota_usage was last set to 0
    files,       \* data/chat_history_<name>.json: file path -> file content
    lastSaved,   \* the last save_history call that wrote its file: user, messages (observation)
    loaded,      \* what the last load_history call returned (observation)
    st,          \* per browser session: st.session_state and the position of its script run
    chat_logs,   \* chat_history.db: the rows of table chat_logs, by id
    ui,          \* st.session_state of the standalone chat page
    pending,     \* a function call of the provider and what its dispatch did
    turns,       \* one turn under each way of opening the provider session, side by side
    solo,        \* users.json as each user's own ledger calls alone leave it (observation)
    outbound     \* a prompt typed into the chat box and what send_message was given

ledgerVars == <<today, db, ret, incs>>
storeVars == <<files, lastSaved, loaded>>
pageVars == <<chat_logs, ui>>
dispatchVars == <<pending, turns>>
vars == <<mode, today, db, ret, incs, files, lastSaved, loaded, st, chat_logs, ui, pending,
          turns, solo, outbound>>

(***************************************************************************)
(* SessionStore: src/modules/chatbot_model.py                              *)
(***************************************************************************)
DATA_DIR == "data"
Fig == "plotly.Figure"          \* a chart object: not JSON-serializable
AlnumChars == {"a", "b", "l", "o"}
Contents == {"text"}

\* x.isalnum() or x in "_-"
KeepChar(x) == x \in AlnumChars \/ x \in {"_", "-"}

\* _get_chat_filepath
GetChatFilepath(name) ==
    <<DATA_DIR, "chat_history_", SelectSeq(name, KeepChar), ".json">>

Corrupt == [kind |-> "corrupt"]
NoFiles == [x \in {} |-> Corrupt]

WriteFile(fs, path, content) ==
    [x \in DOMAIN fs \cup {path} |-> IF x = path THEN content ELSE fs[x]]

StripChart_Keeps(msg) == msg

\* clean = msg.copy(); if "chart" in clean: clean["chart"] = None
StripChart(msg) ==
    IF "chart" \in DOMAIN msg THEN [msg EXCEPT !["chart"] = None] ELSE msg

\* json.dump of one dict: None is written as null; a chart object cannot be written
JsonSerializable(msg) == \A k \in DOMAIN msg : msg[k] # Fig
JsonDumpItem(msg) == [k \in DOMAIN msg |-> IF msg[k] = None THEN JsonNull ELSE msg[k]]
JsonLoadItem(obj) == [k \in DOMAIN obj |-> IF obj[k] = JsonNull THEN None ELSE obj[k]]

JsonDump(msgs) ==
    IF \A i \in 1..Len(msgs) : JsonSerializable(msgs[i])
    THEN [kind |-> "json", items |-> [i \in 1..Len(msgs) |-> JsonDumpItem(msgs[i])]]
    ELSE Corrupt      \* TypeError after open(..., "w") truncated the file

\* how a save_history call goes: os.makedirs fails, open(..., "w") fails, json.dump
\* fails after the file was opened, or everything succeeds
IOOutcomes == {"ok", "mkdir_fails", "open_fails", "write_fails"}

\* save_history: the files it leaves, for each outcome of the write
SaveHistory(fs, name, messages, io) ==
    LET serializable == [i \in 1..Len(messages) |-> StripChart(messages[i])] IN
    CASE io = "ok" -> WriteFile(fs, GetChatFilepath(name), JsonDump(serializable))
      [] io = "mkdir_fails" -> fs
      [] io = "open_fails" -> fs
      [] io = "write_fails" -> WriteFile(fs, GetChatFilepath(name), Corrupt)

\* save_history, lines 203-204 and 207-218: os.makedirs stands before the try, so
\* its exception reaches the caller; the others are caught by except Exception
SaveHistoryRaises(io) == io = "mkdir_fails"

\* load_history
LoadHistory(fs, name) ==
    LET filepath == GetChatFilepath(name) IN
    IF filepath \notin DOMAIN fs THEN <<>>
    ELSE IF fs[filepath].kind # "json" THEN <<>>
    ELSE [i \in 1..Len(fs[filepath].items) |-> JsonLoadItem(fs[filepath].items[i])]

\* how the read of a history file goes, in the behaviours that exercise it
LoadOutcomes == IF mode = "storefaulty" THEN {"ok", "read_fails"} ELSE {"ok"}

\* load_history when open() or read() may fail: IOError is caught and [] returned
LoadHistoryIO(fs, name, io) ==
    IF GetChatFilepath(name) \in DOMAIN fs /\ io = "read_fails" THEN <<>>
    ELSE LoadHistory(fs, name)

NothingSaved == [io |-> "none"]
NotLoaded == [done |-> FALSE]

StoreAtRest ==
    /\ files = NoFiles
    /\ lastSaved = NothingSaved
    /\ loaded = NotLoaded

\* well-formed messages: role, text content, and optionally a chart
Roles == {ROLE_USER, ROLE_ASSISTANT}
ChartValues == {None, Fig}
WellFormedMessages ==
    {[role |-> r, content |-> c] : r \in Roles, c \in Contents}
    \cup {[role |-> r, content |-> c, chart |-> ch] :
            r \in Roles, c \in Contents, ch \in ChartValues}
MessageLists == UNION {[1..k -> WellFormedMessages] : k \in 0..MaxLen}

\* the {role, content} pairs of a message list, in order
RoleContent(msgs) ==
    [i \in 1..Len(msgs) |-> [role |-> msgs[i]["role"], content |-> msgs[i]["content"]]]

(***************************************************************************)
(* Browser sessions: st.session_state as src/chatbot.py uses it            *)
(***************************************************************************)
Sessions == {1, 2}

NoUser == <<>>                  \* no user name: None or the empty string
NoChat == [open |-> FALSE]      \* "chat_session" not in st.session_state
NoUsers == <<>>                 \* no users dict held by the run
NoCall == [kind |-> "none"]
NoUsage == [tier |-> "none"]
Answer(allowed) == IF allowed THEN "allowed" ELSE "denied"

NoBefore == [taken |-> FALSE]

NoObs ==
    [outcome |-> "none",   \* how the last script run ended
     sends |-> 0,          \* send_message calls of the run
     incCalls |-> 0,       \* increment_usage calls of the run
     replied |-> FALSE,    \* an assistant message was appended and saved in the run
     read |-> "none",      \* how the run's last _load_db went: ok or fails
     reply |-> "none",     \* the provider's answer to the prompt: text, error or a tool name
     tool |-> "none",      \* how the tool called in the run ended: ok, chart or raise
     tools |-> 0,          \* tools the run dispatched
     checked |-> "none",   \* the ledger's answer to the run's last quota check
     usageAtCheck |-> NoUsage,\* the user's usage and tier as that check read them
     usageAtSend |-> NoUsage, \* quota_usage in users.json when the prompt was sent
     asst0 |-> 0,          \* assistant messages in memory when the prompt was consumed
     chartFrom |-> None,   \* the chart attached by the run: None, "fresh" or "stale"
     before |-> NoBefore]  \* histories and chart slot when the prompt was consumed

NewSession ==
    [username |-> NoUser, logged_in |-> FALSE,
     messages |-> <<>>, loaded_user |-> NoUser,
     chat_session |-> NoChat, last_chart |-> None,
     pc |-> "idle", is_allowed |-> FALSE, users |-> NoUsers, call |-> NoCall,
     saved |-> 0,          \* messages the session appended and saved so far (observation)
     obs |-> NoObs]

(***************************************************************************)
(* The standalone chat page: st.session_state and chat_history.db as       *)
(* src/pages/chatbot.py uses them                                          *)
(***************************************************************************)
PageNoObs ==
    [outcome |-> "none",   \* how the last script run of the page ended
     asst0 |-> 0,          \* assistant messages in memory when the prompt was consumed
     chartFrom |-> None]   \* the chart attached by the run: None, "fresh" or "stale"

\* a browser session that has not run the page yet
NewUi ==
    [has_messages |-> FALSE, messages |-> <<>>, chat |-> NoChat, last_chart |-> None,
     obs |-> PageNoObs]

PageAtRest ==
    /\ chat_logs = <<>>
    /\ ui = NewUi

(***************************************************************************)
(* A pending function call, before the controller has looked at it         *)
(***************************************************************************)
NoPending == [state |-> "none"]

NoTurns == [input |-> "none"]

\* no prompt under way
NoOutbound == [state |-> "none"]

PromptAtRest == outbound = NoOutbound

\* no ledger call observed
SoloAtRest == solo = <<>>

DispatchAtRest ==
    /\ pending = NoPending
    /\ turns = NoTurns

(***************************************************************************)
(* QuotaLedger: src/modules/auth_manager.py                                *)
(***************************************************************************)
HashPassword(p) == <<"sha256", p>>

NewUserRecord(p, day) ==
    [password |-> HashPassword(p), tier |-> "free", quota_usage |-> 0, last_reset |-> day]

\* register_user: (ok, users')
RegisterUser(users, day, u, p) ==
    IF u = <<>> \/ p = "" THEN [ok |-> FALSE, db |-> users]
    ELSE IF u \in DOMAIN users THEN [ok |-> FALSE, db |-> users]
    ELSE [ok |-> TRUE,
          db |-> [x \in DOMAIN users \cup {u} |->
                    IF x = u THEN NewUserRecord(p, day) ELSE users[x]]]

StatusNotFound == <<"User not found.">>
StatusUnlimited == <<"Unlimited Access">>
StatusReset == <<"Quota Reset.", FREE_DAILY_LIMIT, "left.">>
StatusRemaining(n) == <<"Sisa kuota:", n>>
StatusExhausted == <<"Kuota harian habis. Upgrade ke PRO untuk akses tanpa batas.">>

CheckReset_KeepsUsage(users, day, u) ==
    [users EXCEPT ![u].last_reset = day]

\* the day-rollover branch of check_quota_available
CheckReset(users, day, u) ==
    [users EXCEPT ![u].last_reset = day, ![u].quota_usage = 0]

CheckLimit_OffByOne(usage) ==
    IF usage <= FREE_DAILY_LIMIT
    THEN [allowed |-> TRUE, status |-> StatusRemaining(FREE_DAILY_LIMIT - usage)]
    ELSE [allowed |-> FALSE, status |-> StatusExhausted]

\* the limit comparison of check_quota_available
CheckLimit(usage) ==
    IF usage < FREE_DAILY_LIMIT
    THEN [allowed |-> TRUE, status |-> StatusRemaining(FREE_DAILY_LIMIT - usage)]
    ELSE [allowed |-> FALSE, status |-> StatusExhausted]

CheckTier_IgnoresTier(rec) == FALSE

\* the tier test of check_quota_available: PRO users have no limits
CheckTier(rec) == rec.tier = "pro"

\* check_quota_available: the (allowed, status) pair and the users.json it leaves
CheckQuotaAvailable(users, day, u) ==
    IF u \notin DOMAIN users
    THEN [allowed |-> FALSE, status |-> StatusNotFound, db |-> users, saved |-> FALSE]
    ELSE IF CheckTier(users[u])
    THEN [allowed |-> TRUE, status |-> StatusUnlimited, db |-> users, saved |-> FALSE]
    ELSE IF users[u].last_reset # day
    THEN [allowed |-> TRUE, status |-> StatusReset,
          db |-> CheckReset(users, day, u), saved |-> TRUE]
    ELSE [allowed |-> CheckLimit(users[u].quota_usage).allowed,
          status |-> CheckLimit(users[u].quota_usage).status,
          db |-> users, saved |-> FALSE]

IncrementUsage_Twice(users, u) ==
    IF u \in DOMAIN users
    THEN [users EXCEPT ![u].quota_usage = users[u].quota_usage + 2]
    ELSE users

\* increment_usage
IncrementUsage(users, u) ==
    IF u \in DOMAIN users
    THEN [users EXCEPT ![u].quota_usage = users[u].quota_usage + 1]
    ELSE users

\* upgrade_to_pro
UpgradeToPro(users, u) ==
    IF u \in DOMAIN users
    THEN [users EXCEPT ![u].tier = "pro"]
    ELSE users

EmptyDb == [x \in {} |-> 0]

\* _load_db: the users dict it returns, {} also for a file it cannot read or parse
LoadDb(file, io) == IF io = "ok" THEN file ELSE EmptyDb

\* _save_db: users.json afterwards; open(..., "w") has emptied the file when
\* json.dump fails, and _load_db reads such a file as {}
SaveDb(file, data, io) ==
    CASE io = "ok" -> data
      [] io = "open_fails" -> file
      [] OTHER -> EmptyDb

\* the outcomes of reading and writing users.json that a behaviour exercises
LedgerReads == IF mode = "faulty" THEN {"ok", "fails"} ELSE {"ok"}
LedgerWrites == IF mode = "faulty" THEN {"ok", "open_fails", "write_fails"} ELSE {"ok"}

NoRet == [op |-> "none"]

\* ---- the ledger's operations, called one at a time ----
LRegister(u, p) ==
    /\ mode \in {"ledger", "clock"}
    /\ LET r == RegisterUser(db, today, u, p) IN
        /\ db' = r.db
        /\ ret' = [op |-> "register", user |-> u, ok |-> r.ok]
        /\ incs' = IF r.ok THEN [incs EXCEPT ![u] = 0] ELSE incs
    /\ UNCHANGED <<mode, solo, outbound, pageVars, dispatchVars, today, storeVars, st>>

LCheck(u) ==
    /\ mode \in {"ledger", "clock"}
    /\ LET r == CheckQuotaAvailable(db, today, u) IN
        /\ db' = r.db
        /\ ret' = [op |-> "check", user |-> u, allowed |-> r.allowed,
                   status |-> r.status, before |-> db]
        /\ incs' = IF r.saved THEN [incs EXCEPT ![u] = 0] ELSE incs
    /\ UNCHANGED <<mode, solo, outbound, pageVars, dispatchVars, today, storeVars, st>>

LIncrement(u) ==
    /\ mode \in {"ledger", "clock"}
    /\ incs[u] < MaxIncs
    /\ db' = IncrementUsage(db, u)
    /\ ret' = [op |-> "increment", user |-> u]
    /\ incs' = IF u \in DOMAIN db THEN [incs EXCEPT ![u] = incs[u] + 1] ELSE incs
    /\ UNCHANGED <<mode, solo, outbound, pageVars, dispatchVars, today, storeVars, st>>

LUpgrade(u) ==
    /\ mode \in {"ledger", "clock"}
    /\ db' = UpgradeToPro(db, u)
    /\ ret' = [op |-> "upgrade", user |-> u, before |-> db]
    /\ UNCHANGED <<mode, solo, outbound, pageVars, dispatchVars, today, incs, storeVars, st>>

\* the system date moves to the next day
Tick ==
    /\ today < (IF mode \in {"ledger", "clock"} THEN MaxDay ELSE MaxRunDay)
    /\ today' = today + 1
    /\ ret' = NoRet
    /\ UNCHANGED <<mode, solo, outbound, pageVars, dispatchVars, db, incs, storeVars, st>>

InitLedger ==
    /\ mode = "ledger"
    /\ today = 0
    /\ db = EmptyDb
    /\ ret = NoRet
    /\ incs = [u \in Usernames |-> 0]
    /\ StoreAtRest
    /\ PageAtRest
    /\ PromptAtRest
    /\ SoloAtRest
    /\ DispatchAtRest
    /\ st = [s \in Sessions |-> NewSession]

CallRegister == \E u \in Usernames \cup {<<>>}, p \in Passwords : LRegister(u, p)
CallCheck == \E u \in Usernames : LCheck(u)
CallIncrement == \E u \in Usernames : LIncrement(u)
CallUpgrade == \E u \in Usernames : LUpgrade(u)

NextLedger ==
    \/ CallRegister
    \/ CallCheck
    \/ CallIncrement
    \/ CallUpgrade
    \/ Tick

SpecLedger == InitLedger /\ [][NextLedger]_vars

\* _get_today_str reads datetime.now(), the local wall clock, which an operator, a
\* time synchronisation or a change of time zone can set to an earlier date
ClockBack ==
    /\ mode = "clock"
    /\ today > 0
    /\ today' = today - 1
    /\ ret' = NoRet
    /\ UNCHANGED <<mode, solo, outbound, pageVars, dispatchVars, db, incs, storeVars, st>>

InitClock ==
    /\ mode = "clock"
    /\ today = 0
    /\ db = EmptyDb
    /\ ret = NoRet
    /\ incs = [u \in Usernames |-> 0]
    /\ StoreAtRest
    /\ PageAtRest
    /\ PromptAtRest
    /\ SoloAtRest
    /\ DispatchAtRest
    /\ st = [s \in Sessions |-> NewSession]

NextClock ==
    \/ CallRegister
    \/ CallCheck
    \/ CallIncrement
    \/ CallUpgrade
    \/ Tick
    \/ ClockBack

\* the ledger's operations under every date the system clock may report
SpecClock == InitClock /\ [][NextClock]_vars

\* C25: last_reset only moves forward: every step of the ledger leaves a user's
\* last_reset unchanged or replaces it with a strictly later date, whatever date the
\* system clock reports when check_quota_available runs.
C25_LastResetMovesForward ==
    [][\A u \in DOMAIN db \cap DOMAIN db' : db'[u].last_reset >= db[u].last_reset]_vars

(***************************************************************************)
(* The ledger's operations called by two users at once (SpecShared): every *)
(* operation reads users.json with _load_db, changes the dict it got, and  *)
(* writes the whole dict back with _save_db                                *)
(***************************************************************************)
\* the user each browser session acts for
UserOf(s) == IF s = 1 THEN Alice ELSE Bob

LedgerOps == {"register", "check", "increment", "upgrade"}

\* the dict the operation passes to _save_db, if it saves at all
LedgerOpResult(op, users, day, u) ==
    CASE op = "register" ->
            LET r == RegisterUser(users, day, u, "pw") IN [saved |-> r.ok, db |-> r.db]
      [] op = "check" ->
            LET r == CheckQuotaAvailable(users, day, u) IN [saved |-> r.saved, db |-> r.db]
      [] op = "increment" -> [saved |-> u \in DOMAIN users, db |-> IncrementUsage(users, u)]
      [] OTHER -> [saved |-> u \in DOMAIN users, db |-> UpgradeToPro(users, u)]

\* users = _load_db() at the start of an operation
OpLoad(s, op) ==
    /\ mode = "shared"
    /\ st[s].pc = "idle"
    /\ op = "register" => UserOf(s) \notin DOMAIN solo      \* a user registers once
    /\ (op = "increment" /\ UserOf(s) \in DOMAIN solo) =>
            solo[UserOf(s)].quota_usage < MaxSharedIncs
    /\ st' = [st EXCEPT ![s].users = LoadDb(db, "ok"),
                        ![s].call = [kind |-> op],
                        ![s].pc = "ledgerop"]
    /\ UNCHANGED <<mode, solo, outbound, pageVars, dispatchVars, ledgerVars, storeVars>>

\* the rest of the operation: the change of the dict and _save_db(users)
OpSave(s) ==
    /\ mode = "shared"
    /\ st[s].pc = "ledgerop"
    /\ LET u == UserOf(s)
           r == LedgerOpResult(st[s].call.kind, st[s].users, today, u)
       IN
        /\ db' = IF r.saved THEN SaveDb(db, r.db, "ok") ELSE db
        /\ solo' = LedgerOpResult(st[s].call.kind, solo, today, u).db
    /\ st' = [st EXCEPT ![s].users = NoUsers, ![s].call = NoCall, ![s].pc = "idle"]
    /\ UNCHANGED <<mode, outbound, pageVars, dispatchVars, today, ret, incs, storeVars>>

StepOpLoad == \E s \in Sessions, op \in LedgerOps : OpLoad(s, op)
StepOpSave == \E s \in Sessions : OpSave(s)

InitShared ==
    /\ mode = "shared"
    /\ today = 0
    /\ db = EmptyDb
    /\ ret = NoRet
    /\ incs = [u \in Usernames |-> 0]
    /\ StoreAtRest
    /\ PageAtRest
    /\ PromptAtRest
    /\ solo = EmptyDb
    /\ DispatchAtRest
    /\ st = [s \in Sessions |-> NewSession]

NextShared ==
    \/ StepOpLoad
    \/ StepOpSave
    \/ Tick

\* two users, each in a browser session of their own: the server runs their
\* ledger calls in two threads, which interleave at every read and write of users.json
SpecShared == InitShared /\ [][NextShared]_vars

(***************************************************************************)
(* The store's operations, called one at a time (SpecStore)                *)
(***************************************************************************)
SSave(u, m, io) ==
    /\ mode \in {"store", "storefaulty"}
    /\ io = "mkdir_fails" => files = NoFiles      \* the data directory may be missing
    /\ files' = SaveHistory(files, u, m, io)
    /\ lastSaved' = IF io = "ok"
                    THEN [io |-> io, user |-> u, messages |-> m, raised |-> SaveHistoryRaises(io)]
                    ELSE [io |-> io, raised |-> SaveHistoryRaises(io)]
    /\ loaded' = NotLoaded
    /\ UNCHANGED <<mode, solo, outbound, pageVars, dispatchVars, ledgerVars, st>>

SLoad(u, io) ==
    /\ mode \in {"store", "storefaulty"}
    /\ loaded' = [done |-> TRUE, user |-> u, messages |-> LoadHistoryIO(files, u, io),
                  io |-> io]
    /\ UNCHANGED <<mode, solo, outbound, pageVars, dispatchVars, ledgerVars, files, lastSaved, st>>

LedgerAtRest ==
    /\ today = 0
    /\ db = EmptyDb
    /\ ret = NoRet
    /\ incs = [u \in Usernames |-> 0]

\* the store is called for the session's user, which is an input
InitStore ==
    /\ mode = "store"
    /\ LedgerAtRest
    /\ StoreAtRest
    /\ PageAtRest
    /\ PromptAtRest
    /\ SoloAtRest
    /\ DispatchAtRest
    /\ \E u \in Usernames :
            st = [s \in Sessions |-> [NewSession EXCEPT !.username = u, !.logged_in = TRUE]]

CallSave == \E m \in MessageLists, io \in IOOutcomes : SSave(st[1].username, m, io)
CallLoad == \E io \in LoadOutcomes : SLoad(st[1].username, io)

NextStore ==
    \/ CallSave
    \/ CallLoad

SpecStore == InitStore /\ [][NextStore]_vars

InitStoreFaulty ==
    /\ mode = "storefaulty"
    /\ LedgerAtRest
    /\ StoreAtRest
    /\ PageAtRest
    /\ PromptAtRest
    /\ SoloAtRest
    /\ DispatchAtRest
    /\ \E u \in Usernames :
            st = [s \in Sessions |-> [NewSession EXCEPT !.username = u, !.logged_in = TRUE]]

\* the store's operations, with reads of the history file that can fail
SpecStoreFaulty == InitStoreFaulty /\ [][NextStore]_vars

(***************************************************************************)
(* Registered names and their history files (SpecNames)                    *)
(***************************************************************************)
\* the characters of the names typed: a letter and a full stop
NameChars == {"a", "."}
TypedNames == UNION {[1..k -> NameChars] : k \in 0..MaxNameLen}

\* register_user as the registration form calls it
NRegister(u, p) ==
    /\ mode = "names"
    /\ Cardinality(DOMAIN db) < MaxAccounts
    /\ LET r == RegisterUser(db, today, u, p) IN
        /\ db' = r.db
        /\ ret' = [op |-> "register", user |-> u, ok |-> r.ok]
    /\ UNCHANGED <<mode, solo, outbound, pageVars, dispatchVars, today, incs, storeVars, st>>

\* save_history for a registered user
NSave(u) ==
    /\ mode = "names"
    /\ u \in DOMAIN db
    /\ files' = SaveHistory(files, u, <<[role |-> ROLE_USER, content |-> "text"]>>, "ok")
    /\ lastSaved' = [io |-> "ok", user |-> u,
                     messages |-> <<[role |-> ROLE_USER, content |-> "text"]>>,
                     raised |-> SaveHistoryRaises("ok")]
    /\ loaded' = NotLoaded
    /\ UNCHANGED <<mode, solo, outbound, pageVars, dispatchVars, ledgerVars, st>>

\* load_history for a registered user
NLoad(u) ==
    /\ mode = "names"
    /\ u \in DOMAIN db
    /\ loaded' = [done |-> TRUE, user |-> u, messages |-> LoadHistory(files, u), io |-> "ok"]
    /\ UNCHANGED <<mode, solo, outbound, pageVars, dispatchVars, ledgerVars, files, lastSaved, st>>

TypeRegister == \E u \in TypedNames, p \in Passwords : NRegister(u, p)
NameSave == \E u \in TypedNames : NSave(u)
NameLoad == \E u \in TypedNames : NLoad(u)

InitNames ==
    /\ mode = "names"
    /\ LedgerAtRest
    /\ StoreAtRest
    /\ PageAtRest
    /\ PromptAtRest
    /\ SoloAtRest
    /\ DispatchAtRest
    /\ st = [s \in Sessions |-> NewSession]

NextNames ==
    \/ TypeRegister
    \/ NameSave
    \/ NameLoad

\* accounts are registered under typed names and the store is called for them
SpecNames == InitNames /\ [][NextNames]_vars

\* C29: two distinct registered user names always map to distinct history files,
\* for every pair of names registration accepts.
C29_DistinctFiles ==
    \A u \in DOMAIN db : \A v \in DOMAIN db :
        u # v => GetChatFilepath(u) # GetChatFilepath(v)

\* C7: save_history(user, m) followed by load_history(user) returns the same
\* ordered {role, content} pairs as m, for every well-formed m (charts included),
\* and every chart field of the file written is absent or null.
C7_RoundTrip ==
    /\ (lastSaved.io = "ok") =>
            /\ RoleContent(LoadHistory(files, lastSaved.user)) = RoleContent(lastSaved.messages)
            /\ LET f == files[GetChatFilepath(lastSaved.user)] IN
                /\ f.kind = "json"
                /\ \A i \in 1..Len(f.items) :
                        "chart" \in DOMAIN f.items[i] => f.items[i]["chart"] = JsonNull
    /\ (lastSaved.io = "ok" /\ loaded.done /\ loaded.user = lastSaved.user) =>
            RoleContent(loaded.messages) = RoleContent(lastSaved.messages)

\* a list of two messages, one carrying a chart object, was saved and loaded back
C7_Witness ==
    /\ lastSaved.io = "ok"
    /\ Len(lastSaved.messages) = 2
    /\ lastSaved.messages[1]["role"] # lastSaved.messages[2]["role"]
    /\ \E i \in 1..2 : "chart" \in DOMAIN lastSaved.messages[i]
                        /\ lastSaved.messages[i]["chart"] = Fig
    /\ loaded.done /\ loaded.user = lastSaved.user
    /\ Len(loaded.messages) = 2

\* C23: the store never surfaces an error to its caller: load_history returns the
\* empty list when the user's file is missing, cannot be read or is corrupt, and
\* save_history raises nothing whichever step of the write fails, the creation of
\* the data directory included.
C23_StoreNeverRaises ==
    /\ (lastSaved.io # "none") => ~lastSaved.raised
    /\ (loaded.done /\ (GetChatFilepath(loaded.user) \notin DOMAIN files
                            \/ loaded.io = "read_fails"
                            \/ files[GetChatFilepath(loaded.user)] = Corrupt)) =>
            loaded.messages = <<>>

(***************************************************************************)
(* OrchestrationController: src/chatbot.py                                 *)
(***************************************************************************)
PromptText == "prompt"

\* what user u types into the chat box: each user's prompts are their own
PromptOf(u) ==
    IF u = Alice THEN PromptText ELSE IF u = Bob THEN "prompt of bo" ELSE "prompt of a.l"
ReplyText == "reply"

\* get_tools_map: the registry (two of its ten tools stand for the rest: one that
\* only returns text, and plot_interactive_chart, which stores a chart)
ToolsMap == {"get_stock_price", "plot_interactive_chart"}
UnknownTool == "not_in_registry"
ProviderReplies == {"text", "error"} \cup ToolsMap \cup {UnknownTool}

\* what running a registered tool can do
ToolOutcomes(name) ==
    IF name = "plot_interactive_chart" THEN {"chart", "ok", "raise"} ELSE {"ok", "raise"}

\* convert_to_gemini_format
ConvertToGeminiFormat(msgs) ==
    LET kept == SelectSeq(msgs, LAMBDA m : m["content"] # "") IN
    [i \in 1..Len(kept) |->
        [role |-> IF kept[i]["role"] = ROLE_USER THEN ROLE_USER ELSE ROLE_MODEL,
         parts |-> <<kept[i]["content"]>>]]

\* if not is_logged_in or not current_user
AccessDenied(sess) == ~sess.logged_in \/ sess.username = NoUser

ShowInput_Always(is_allowed) == TRUE

\* if is_allowed: (the input box is shown)
ShowInput(is_allowed) == is_allowed

Admit_Always(can_chat) == TRUE

\* if not can_chat: st.stop()
Admit(can_chat) == can_chat

AppendUser(msgs, prompt) == Append(msgs, [role |-> ROLE_USER, content |-> prompt])

\* _handle_text_response: the message appended
AppendText(msgs, text) == Append(msgs, [role |-> ROLE_ASSISTANT, content |-> text])

\* _handle_tool_execution: the message appended
AppendToolAnswer(msgs, text, chart) ==
    Append(msgs, [role |-> ROLE_ASSISTANT, content |-> text, chart |-> chart])

CountAssistant(msgs) == Cardinality({i \in 1..Len(msgs) : msgs[i]["role"] = ROLE_ASSISTANT})

MsgBound == IF mode = "concurrent" THEN MaxConcMsgs ELSE MaxMsgs

Active == IF mode = "concurrent" THEN Sessions ELSE {1}

\* who logs in: one account, from one or from two browser sessions, or two accounts
\* one after the other in the same browser session
LoginUsers == IF mode = "switch" THEN Usernames \cup {Alias} ELSE {Alice}

Ended(sess, how) ==
    [sess EXCEPT !.pc = "idle", !.users = NoUsers, !.call = NoCall, !.obs.outcome = how]

ProcessingError_Counts(sess) == [Ended(sess, "error") EXCEPT !.pc = "inc"]

\* except Exception as e: st.error(f"Processing Error: ...")
ProcessingError(sess) == Ended(sess, "error")

\* the identity of the session is set by the login page
Login(s, u) ==
    /\ mode \in {"controller", "concurrent", "faulty", "reset", "switch"}
    /\ st[s].pc = "idle"
    /\ u \in DOMAIN db
    /\ ~(st[s].logged_in /\ st[s].username = u)
    /\ st' = [st EXCEPT ![s].username = u, ![s].logged_in = TRUE]
    /\ UNCHANGED <<mode, solo, outbound, pageVars, dispatchVars, ledgerVars, storeVars>>

\* show_chatbot, lines 29-35: a script run starts with the authentication check
BeginRun(s) ==
    /\ mode \in {"controller", "concurrent", "faulty", "reset", "switch"}
    /\ st[s].pc = "idle"
    /\ st' = [st EXCEPT ![s] =
                IF AccessDenied(st[s])
                THEN [st[s] EXCEPT !.obs = [NoObs EXCEPT !.outcome = "access_denied"]]
                ELSE [st[s] EXCEPT !.pc = "check1", !.obs = NoObs]]
    /\ UNCHANGED <<mode, solo, outbound, pageVars, dispatchVars, ledgerVars, storeVars>>

\* _load_db at the start of check_quota_available and increment_usage
LedgerLoad(s, io) ==
    /\ st[s].pc \in {"check1", "check2", "inc"}
    /\ st' = [st EXCEPT ![s].users = LoadDb(db, io),
                        ![s].obs.read = io,
                        ![s].pc = CASE st[s].pc = "check1" -> "check1b"
                                    [] st[s].pc = "check2" -> "check2b"
                                    [] st[s].pc = "inc" -> "incb"]
    /\ UNCHANGED <<mode, solo, outbound, pageVars, dispatchVars, ledgerVars, storeVars>>

UsageSeen(users, u) ==
    IF u \in DOMAIN users
    THEN [tier |-> users[u].tier, quota_usage |-> users[u].quota_usage,
          last_reset |-> users[u].last_reset, day |-> today]
    ELSE NoUsage

\* show_chatbot, lines 40-47: the first quota check
Check1(s, io) ==
    /\ st[s].pc = "check1b"
    /\ LET r == CheckQuotaAvailable(st[s].users, today, st[s].username) IN
        /\ ~r.saved => io = "ok"
        /\ db' = IF r.saved THEN SaveDb(db, r.db, io) ELSE db
        /\ st' = [st EXCEPT ![s] =
                    IF io = "ok"
                    THEN [st[s] EXCEPT !.is_allowed = r.allowed,
                                       !.users = NoUsers,
                                       !.obs.checked = Answer(r.allowed),
                                       !.obs.usageAtCheck =
                                            UsageSeen(st[s].users, st[s].username),
                                       !.pc = "init"]
                    ELSE Ended(st[s], "crash")]
        /\ incs' = IF r.saved /\ io = "ok" THEN [incs EXCEPT ![st[s].username] = 0] ELSE incs
    /\ UNCHANGED <<mode, solo, outbound, pageVars, dispatchVars, today, ret, storeVars>>

\* if st.session_state.get("_chat_loaded_user") != current_user
UserSwitched(sess) == sess.loaded_user # sess.username

\* show_chatbot, lines 49-66: history and provider session of the current user
InitSession(s, available) ==
    /\ st[s].pc = "init"
    /\ LET switch == UserSwitched(st[s])
           msgs == IF switch THEN LoadHistory(files, st[s].username) ELSE st[s].messages
           chat == IF switch THEN NoChat ELSE st[s].chat_session
           sess == [st[s] EXCEPT !.messages = msgs, !.loaded_user = st[s].username,
                                 !.chat_session = chat]
       IN  st' = [st EXCEPT ![s] =
                    IF chat.open THEN [sess EXCEPT !.pc = "input"]
                    ELSE IF available
                    THEN [sess EXCEPT !.pc = "input",
                                      !.chat_session = [open |-> TRUE,
                                                        history |-> ConvertToGeminiFormat(msgs),
                                                        awaiting |-> FALSE]]
                    ELSE Ended(sess, "unavailable")]
    /\ UNCHANGED <<mode, solo, outbound, pageVars, dispatchVars, ledgerVars, storeVars>>

\* show_chatbot, lines 68-74: render, and read the input box if it is shown
Input(s, prompted) ==
    /\ st[s].pc = "input"
    /\ prompted => Len(st[s].messages) < MsgBound
    /\ st' = [st EXCEPT ![s] =
                IF ShowInput(st[s].is_allowed) /\ prompted
                THEN [st[s] EXCEPT !.pc = "check2"]
                ELSE Ended(st[s], IF st[s].is_allowed THEN "rendered" ELSE "read_only")]
    /\ UNCHANGED <<mode, solo, outbound, pageVars, dispatchVars, ledgerVars, storeVars>>

\* show_chatbot, lines 76-80: the second quota check
Check2(s, io) ==
    /\ st[s].pc = "check2b"
    /\ LET r == CheckQuotaAvailable(st[s].users, today, st[s].username)
           sess == [st[s] EXCEPT !.users = NoUsers,
                                 !.obs.checked = Answer(r.allowed),
                                 !.obs.usageAtCheck = UsageSeen(st[s].users, st[s].username)]
       IN
        /\ ~r.saved => io = "ok"
        /\ db' = IF r.saved THEN SaveDb(db, r.db, io) ELSE db
        /\ st' = [st EXCEPT ![s] =
                    IF io # "ok" THEN Ended(st[s], "crash")
                    ELSE IF Admit(r.allowed) THEN [sess EXCEPT !.pc = "usersave"]
                    ELSE Ended(sess, "quota_stop")]
        /\ incs' = IF r.saved /\ io = "ok" THEN [incs EXCEPT ![st[s].username] = 0] ELSE incs
    /\ UNCHANGED <<mode, solo, outbound, pageVars, dispatchVars, today, ret, storeVars>>

\* show_chatbot, lines 82-86: the prompt is appended and the history saved
UserSave(s) ==
    /\ st[s].pc = "usersave"
    /\ LET msgs == AppendUser(st[s].messages, PromptOf(st[s].username)) IN
        /\ files' = SaveHistory(files, st[s].username, msgs, "ok")
        /\ st' = [st EXCEPT ![s].messages = msgs,
                            ![s].obs.asst0 = CountAssistant(st[s].messages),
                            ![s].obs.before =
                                [taken |-> TRUE, messages |-> st[s].messages,
                                 durable |-> LoadHistory(files, st[s].username),
                                 chart |-> IF st[s].last_chart = None THEN None ELSE "stale"],
                            ![s].last_chart = IF st[s].last_chart = None THEN None ELSE "stale",
                            ![s].saved = st[s].saved + 1,
                            ![s].pc = "send"]
    /\ UNCHANGED <<mode, solo, outbound, pageVars, dispatchVars, ledgerVars, lastSaved, loaded>>

\* process_ai_response, lines 96-109: the prompt goes to the provider; the handle
\* is awaiting a function response once the provider has answered with a function call
Send(s, reply) ==
    /\ st[s].pc = "send"
    /\ LET sess == [st[s] EXCEPT !.obs.sends = st[s].obs.sends + 1,
                                 !.obs.reply = reply,
                                 !.obs.usageAtSend = UsageSeen(db, st[s].username)]
       IN  st' = [st EXCEPT ![s] =
                    CASE reply = "error" -> ProcessingError(sess)
                      [] reply = "text" ->
                            [sess EXCEPT !.call = [kind |-> "text"], !.pc = "reply",
                                         !.chat_session.awaiting = FALSE]
                      [] reply \in ToolsMap ->
                            [sess EXCEPT !.call = [kind |-> "tool", name |-> reply],
                                         !.pc = "tool", !.chat_session.awaiting = TRUE]
                      [] OTHER -> [sess EXCEPT !.pc = "inc", !.chat_session.awaiting = TRUE]]
    /\ UNCHANGED <<mode, solo, outbound, pageVars, dispatchVars, ledgerVars, storeVars>>

\* _handle_tool_execution, lines 128-134: the tool runs
Tool(s, outcome) ==
    /\ st[s].pc = "tool"
    /\ outcome \in ToolOutcomes(st[s].call.name)
    /\ LET sess == [st[s] EXCEPT !.obs.tool = outcome,
                                 !.obs.tools = st[s].obs.tools + 1] IN
        st' = [st EXCEPT ![s] =
                CASE outcome = "raise" -> ProcessingError(sess)
                  [] outcome = "chart" -> [sess EXCEPT !.last_chart = "fresh", !.pc = "followup"]
                  [] OTHER -> [sess EXCEPT !.pc = "followup"]]
    /\ UNCHANGED <<mode, solo, outbound, pageVars, dispatchVars, ledgerVars, storeVars>>

AfterFollowup_Loops == "tool"

\* _handle_tool_execution, line 146: the answer to the tool result is taken as the
\* final text (answer_text = final_res.text); it is not looked at for a function call
AfterFollowup == "reply"

\* _handle_tool_execution, lines 136-146: the tool's result goes to the provider
Followup(s, reply) ==
    /\ st[s].pc = "followup"
    /\ LET sess == [st[s] EXCEPT !.obs.sends = st[s].obs.sends + 1] IN
        st' = [st EXCEPT ![s] =
                IF reply = "error" THEN ProcessingError(sess)
                ELSE [sess EXCEPT !.pc = AfterFollowup, !.chat_session.awaiting = FALSE]]
    /\ UNCHANGED <<mode, solo, outbound, pageVars, dispatchVars, ledgerVars, storeVars>>

\* _handle_tool_execution, lines 148-160, and _handle_text_response
Reply(s) ==
    /\ st[s].pc = "reply"
    /\ LET tool == st[s].call.kind = "tool"
           chart == st[s].last_chart
           msgs == IF tool
                   THEN AppendToolAnswer(st[s].messages, ReplyText,
                                         IF chart = None THEN None ELSE Fig)
                   ELSE AppendText(st[s].messages, ReplyText)
       IN
        /\ files' = SaveHistory(files, st[s].username, msgs, "ok")
        /\ st' = [st EXCEPT ![s].messages = msgs,
                            ![s].last_chart = IF tool THEN None ELSE chart,
                            ![s].obs.replied = TRUE,
                            ![s].obs.chartFrom = IF tool THEN chart ELSE None,
                            ![s].call = NoCall,
                            ![s].saved = st[s].saved + 1,
                            ![s].pc = "inc"]
    /\ UNCHANGED <<mode, solo, outbound, pageVars, dispatchVars, ledgerVars, lastSaved, loaded>>

\* process_ai_response, lines 111-113: increment_usage, then st.rerun()
Finalize(s, io) ==
    /\ st[s].pc = "incb"
    /\ LET found == st[s].username \in DOMAIN st[s].users
           sess == [st[s] EXCEPT !.obs.incCalls = st[s].obs.incCalls + 1]
       IN
        /\ ~found => io = "ok"
        /\ db' = IF found
                 THEN SaveDb(db, IncrementUsage(st[s].users, st[s].username), io)
                 ELSE db
        /\ st' = [st EXCEPT ![s] =
                    IF io = "ok" THEN Ended(sess, "ok") ELSE ProcessingError(sess)]
        /\ incs' = IF found /\ io = "ok"
                   THEN [incs EXCEPT ![st[s].username] = incs[st[s].username] + 1]
                   ELSE incs
    /\ UNCHANGED <<mode, solo, outbound, pageVars, dispatchVars, today, ret, storeVars>>

InitUsages == {0, FREE_DAILY_LIMIT - 1}

\* users.json as earlier turns may have left it
InitDbs ==
    {[u \in Usernames |->
        [password |-> HashPassword("pw"), tier |-> "free",
         quota_usage |-> IF u = Alice THEN n ELSE 0, last_reset |-> 0]] : n \in InitUsages}

InitController ==
    /\ mode = "controller"
    /\ today = 0
    /\ db \in InitDbs
    /\ ret = NoRet
    /\ incs = [u \in Usernames |-> db[u].quota_usage]
    /\ StoreAtRest
    /\ PageAtRest
    /\ PromptAtRest
    /\ SoloAtRest
    /\ DispatchAtRest
    /\ st = [s \in Sessions |-> NewSession]

StepLogin == \E s \in Active, u \in LoginUsers : Login(s, u)
StepBeginRun == \E s \in Active : BeginRun(s)
StepLedgerLoad == \E s \in Active, io \in LedgerReads : LedgerLoad(s, io)
StepCheck1 == \E s \in Active, io \in LedgerWrites : Check1(s, io)
StepInitSession == \E s \in Active, available \in BOOLEAN : InitSession(s, available)
StepInput == \E s \in Active, prompted \in BOOLEAN : Input(s, prompted)
StepCheck2 == \E s \in Active, io \in LedgerWrites : Check2(s, io)
StepUserSave == \E s \in Active : UserSave(s)
StepSend == \E s \in Active, reply \in ProviderReplies : Send(s, reply)
StepTool == \E s \in Active, outcome \in {"ok", "chart", "raise"} : Tool(s, outcome)
StepFollowup == \E s \in Active, reply \in {"text", "error"} : Followup(s, reply)
StepReply == \E s \in Active : Reply(s)
StepFinalize == \E s \in Active, io \in LedgerWrites : Finalize(s, io)

Next ==
    \/ StepLogin
    \/ StepBeginRun
    \/ StepLedgerLoad
    \/ StepCheck1
    \/ StepInitSession
    \/ StepInput
    \/ StepCheck2
    \/ StepUserSave
    \/ StepSend
    \/ StepTool
    \/ StepFollowup
    \/ StepReply
    \/ StepFinalize
    \/ Tick

\* one browser session: script runs follow one another
Spec == InitController /\ [][Next]_vars

InitConc ==
    /\ mode = "concurrent"
    /\ today = 0
    /\ db \in InitDbs
    /\ ret = NoRet
    /\ incs = [u \in Usernames |-> db[u].quota_usage]
    /\ StoreAtRest
    /\ PageAtRest
    /\ PromptAtRest
    /\ SoloAtRest
    /\ DispatchAtRest
    /\ st = [s \in Sessions |-> NewSession]

InitFaulty ==
    /\ mode = "faulty"
    /\ today = 0
    /\ db \in InitDbs
    /\ ret = NoRet
    /\ incs = [u \in Usernames |-> db[u].quota_usage]
    /\ StoreAtRest
    /\ PageAtRest
    /\ PromptAtRest
    /\ SoloAtRest
    /\ DispatchAtRest
    /\ st = [s \in Sessions |-> NewSession]

\* one browser session, with reads and writes of users.json that can fail
SpecFaulty == InitFaulty /\ [][Next]_vars

\* the provider answers every prompt with text
ConcSend == \E s \in Active : Send(s, "text")

\* the script runs of two sessions on one calendar day
NextConc ==
    \/ StepLogin
    \/ StepBeginRun
    \/ StepLedgerLoad
    \/ StepCheck1
    \/ StepInitSession
    \/ StepInput
    \/ StepCheck2
    \/ StepUserSave
    \/ ConcSend
    \/ StepReply
    \/ StepFinalize

\* two browser sessions of one account: each script run is a thread of the server,
\* and the runs interleave at every read and write of users.json and the history
SpecConc == InitConc /\ [][NextConc]_vars

\* render_sidebar_controls, lines 63-69: what "Reset Chat" does to st.session_state
\* (the controller keeps no "chat_history" key; "messages" is the list it renders)
SidebarReset(sess) ==
    [sess EXCEPT !.messages = <<>>, !.obs = [NoObs EXCEPT !.outcome = "reset"]]

\* render_sidebar_controls: a click on "Reset Chat"; st.rerun() starts the next run
ResetChat(s) ==
    /\ mode = "reset"
    /\ st[s].pc = "idle"
    /\ ~AccessDenied(st[s])
    /\ st' = [st EXCEPT ![s] = SidebarReset(st[s])]
    /\ UNCHANGED <<mode, solo, outbound, pageVars, dispatchVars, ledgerVars, storeVars>>

StepResetChat == \E s \in Active : ResetChat(s)

InitReset ==
    /\ mode = "reset"
    /\ today = 0
    /\ db \in InitDbs
    /\ ret = NoRet
    /\ incs = [u \in Usernames |-> db[u].quota_usage]
    /\ StoreAtRest
    /\ PageAtRest
    /\ PromptAtRest
    /\ SoloAtRest
    /\ DispatchAtRest
    /\ st = [s \in Sessions |-> NewSession]

NextReset ==
    \/ StepLogin
    \/ StepBeginRun
    \/ StepLedgerLoad
    \/ StepCheck1
    \/ StepInitSession
    \/ StepInput
    \/ StepCheck2
    \/ StepUserSave
    \/ ConcSend
    \/ StepReply
    \/ StepFinalize
    \/ StepResetChat

\* one browser session whose sidebar offers "Reset Chat" between script runs
SpecReset == InitReset /\ [][NextReset]_vars

InitSwitch ==
    /\ mode = "switch"
    /\ today = 0
    /\ \E d \in InitDbs :
            db = [u \in LoginUsers |-> IF u \in Usernames THEN d[u] ELSE d[Bob]]
    /\ ret = NoRet
    /\ incs = [u \in LoginUsers |-> db[u].quota_usage]
    /\ StoreAtRest
    /\ PageAtRest
    /\ PromptAtRest
    /\ SoloAtRest
    /\ DispatchAtRest
    /\ st = [s \in Sessions |-> NewSession]

\* one browser session in which three accounts log in one after the other
SpecSwitch == InitSwitch /\ [][NextConc]_vars

(***************************************************************************)
(* The standalone chat page: src/pages/chatbot.py (SpecPage)               *)
(***************************************************************************)
WelcomeText == "welcome"
ErrorText == "tool_error"

\* the functions the page offers to the provider (two stand for the nine)
AvailableFunctions == {"get_stock_price", "plot_interactive_chart"}
PageReplies == {"error", "no_parts", "text", "no_text"} \cup AvailableFunctions \cup {UnknownTool}
Buttons == {"none", "reset", "home"}

\* save_chat_log
SaveChatLog(rows, role, content) ==
    Append(rows, [role |-> IF role = ROLE_USER THEN ROLE_USER ELSE ROLE_MODEL,
                  content |-> content])

\* load_chat_history_for_gemini
LoadChatHistoryForGemini(rows) ==
    [i \in 1..Len(rows) |-> [role |-> rows[i].role, parts |-> <<rows[i].content>>]]

\* clear_db
ClearDb == <<>>

\* show_chatbot, lines 159-171: the UI history built from the log
UiFromDb(db_history) ==
    [i \in 1..Len(db_history) |->
        [role |-> IF db_history[i].role = ROLE_MODEL THEN ROLE_ASSISTANT ELSE ROLE_USER,
         content |-> db_history[i].parts[1],
         chart |-> None]]

UiMessage(role, content, chart) == [role |-> role, content |-> content, chart |-> chart]

TurnResult(msgs, rows, chart, outcome, chartFrom) ==
    [messages |-> msgs, rows |-> rows, last_chart |-> chart, outcome |-> outcome,
     chartFrom |-> chartFrom]

\* show_chatbot, lines 312-316: except Exception around the tool and the follow-up
ToolFailed(msgs, rows, chart, outcome) ==
    TurnResult(Append(msgs, UiMessage(ROLE_ASSISTANT, ErrorText, None)),
               SaveChatLog(rows, ROLE_MODEL, ErrorText), chart, outcome, None)

\* show_chatbot, lines 249-333: the turn, after the prompt was appended and logged
PageTurn(msgs, rows, last_chart, reply, outcome, follow) ==
    LET aged == IF last_chart = None THEN None ELSE "stale" IN
    CASE reply = "error" -> TurnResult(msgs, rows, aged, "provider_error", None)
      [] reply = "no_parts" -> TurnResult(msgs, rows, aged, "no_response", None)
      [] reply = "text" ->
            TurnResult(Append(msgs, UiMessage(ROLE_ASSISTANT, ReplyText, None)),
                       SaveChatLog(rows, ROLE_MODEL, ReplyText), aged, "ok", None)
      [] reply = "no_text" -> TurnResult(msgs, rows, aged, "no_text", None)
      [] reply \in AvailableFunctions ->
            IF outcome = "raise" THEN ToolFailed(msgs, rows, aged, "tool_error")
            ELSE LET stored == IF outcome = "chart" THEN "fresh" ELSE aged IN
                 IF follow = "error" THEN ToolFailed(msgs, rows, stored, "followup_error")
                 ELSE LET current_chart ==
                            IF reply = "plot_interactive_chart" /\ stored # None
                            THEN stored ELSE None
                      IN  TurnResult(
                            Append(msgs, UiMessage(ROLE_ASSISTANT, ReplyText,
                                                   IF current_chart = None THEN None ELSE Fig)),
                            SaveChatLog(rows, ROLE_MODEL, ReplyText),
                            stored, "ok", current_chart)
      [] OTHER -> TurnResult(msgs, rows, aged, "unknown_tool", None)

\* show_chatbot of the page: one script run
PageRun(button, prompted, reply, outcome, follow) ==
    /\ mode = "page"
    /\ reply \in AvailableFunctions => outcome \in ToolOutcomes(reply)
    /\ LET db_history == LoadChatHistoryForGemini(chat_logs)
           msgs1 == IF ui.has_messages THEN ui.messages ELSE UiFromDb(db_history)
       IN
        IF button = "reset"
        THEN /\ chat_logs' = ClearDb
             /\ ui' = [has_messages |-> TRUE, messages |-> <<>>, chat |-> NoChat,
                       last_chart |-> None,
                       obs |-> [PageNoObs EXCEPT !.outcome = "reset"]]
        ELSE
            LET start == ~ui.chat.open
                greet == start /\ db_history = <<>>
                chat2 == IF start THEN [open |-> TRUE, history |-> db_history] ELSE ui.chat
                msgs2 == IF greet
                         THEN Append(msgs1, UiMessage(ROLE_ASSISTANT, WelcomeText, None))
                         ELSE msgs1
                rows2 == IF greet THEN SaveChatLog(chat_logs, ROLE_MODEL, WelcomeText)
                         ELSE chat_logs
            IN
            IF button = "home" \/ ~prompted
            THEN /\ chat_logs' = rows2
                 /\ ui' = [has_messages |-> TRUE, messages |-> msgs2, chat |-> chat2,
                           last_chart |-> ui.last_chart,
                           obs |-> [PageNoObs EXCEPT !.outcome = "rendered"]]
            ELSE /\ Len(msgs2) < MaxPageMsgs
                 /\ LET msgs3 == Append(msgs2, UiMessage(ROLE_USER, PromptText, None))
                        rows3 == SaveChatLog(rows2, ROLE_USER, PromptText)
                        t == PageTurn(msgs3, rows3, ui.last_chart, reply, outcome, follow)
                    IN
                     /\ chat_logs' = t.rows
                     /\ ui' = [has_messages |-> TRUE, messages |-> t.messages,
                               chat |-> chat2, last_chart |-> t.last_chart,
                               obs |-> [outcome |-> t.outcome,
                                        asst0 |-> CountAssistant(msgs2),
                                        chartFrom |-> t.chartFrom]]
    /\ UNCHANGED <<mode, solo, outbound, ledgerVars, storeVars, st, dispatchVars>>

\* the page is opened in a new browser session: st.session_state starts empty
PageNewSession ==
    /\ mode = "page"
    /\ ui # NewUi
    /\ ui' = NewUi
    /\ UNCHANGED <<mode, solo, outbound, ledgerVars, storeVars, st, chat_logs, dispatchVars>>

InitPage ==
    /\ mode = "page"
    /\ LedgerAtRest
    /\ StoreAtRest
    /\ PageAtRest
    /\ PromptAtRest
    /\ SoloAtRest
    /\ DispatchAtRest
    /\ st = [s \in Sessions |-> NewSession]

PageScriptRun ==
    \E button \in Buttons, prompted \in BOOLEAN, reply \in PageReplies,
       outcome \in {"ok", "chart", "raise"}, follow \in {"text", "error"} :
        PageRun(button, prompted, reply, outcome, follow)

NextPage ==
    \/ PageScriptRun
    \/ PageNewSession

SpecPage == InitPage /\ [][NextPage]_vars

(***************************************************************************)
(* Tool dispatch: _handle_tool_execution, lines 122-134 (SpecDispatch)     *)
(***************************************************************************)
Digits == {"0", "2"}
WinChars == Digits \cup {".", "-", " ", "x"}
Tickers == {"BBCA"}

\* values a function call can carry for an argument: text, a number of the
\* provider's Struct (a float: whole part and tenths), or a Python int
TextValue(chars) == [type |-> "str", chars |-> chars]
FloatValue(whole, tenths) == [type |-> "float", whole |-> whole, tenths |-> tenths]
IntValue(n) == [type |-> "int", value |-> n]
Absent == [type |-> "absent"]

WindowTexts == UNION {[1..k -> WinChars] : k \in 0..MaxWinLen}
WindowValues ==
    {TextValue(c) : c \in WindowTexts}
    \cup {FloatValue(w, t) : w \in {-20, 0, 20}, t \in {0, 5}}
    \cup {IntValue(20)}

ToolArgs == [ticker : Tickers, window : WindowValues \cup {Absent}]

DigitValue(c) == IF c = "2" THEN 2 ELSE 0

RECURSIVE DigitsValue(_)
DigitsValue(cs) ==
    IF cs = <<>> THEN 0
    ELSE 10 * DigitsValue(SubSeq(cs, 1, Len(cs) - 1)) + DigitValue(cs[Len(cs)])

AllDigits(cs) == cs # <<>> /\ \A i \in 1..Len(cs) : cs[i] \in Digits

\* str.strip() as int() applies it to its argument
RECURSIVE Strip(_)
Strip(cs) ==
    IF cs = <<>> THEN cs
    ELSE IF cs[1] = " " THEN Strip(Tail(cs))
    ELSE IF cs[Len(cs)] = " " THEN Strip(SubSeq(cs, 1, Len(cs) - 1))
    ELSE cs

Raised(exc) == [ok |-> FALSE, exc |-> exc]
Returned(v) == [ok |-> TRUE, value |-> v]

\* int(x) of Python: an int as it is, a float cut toward zero, text only when it
\* is an integer literal (sign and digits, blanks around it)
PyInt(v) ==
    CASE v.type = "int" -> Returned(v.value)
      [] v.type = "float" -> Returned(v.whole)
      [] OTHER ->
            LET t == Strip(v.chars)
                neg == t # <<>> /\ t[1] = "-"
                body == IF neg THEN Tail(t) ELSE t
            IN  IF AllDigits(body)
                THEN Returned(IF neg THEN -DigitsValue(body) ELSE DigitsValue(body))
                ELSE Raised("ValueError")

\* _handle_tool_execution, lines 122-134: what becomes of the function call
HandleToolCall(name, args) ==
    IF name \notin ToolsMap THEN [state |-> "skipped", name |-> name, args |-> args]
    ELSE IF args.window # Absent
    THEN LET r == PyInt(args.window) IN
         IF r.ok
         THEN [state |-> "invoked", name |-> name, args |-> args,
               with |-> [args EXCEPT !.window = IntValue(r.value)]]
         ELSE [state |-> "raised", name |-> name, args |-> args, exc |-> r.exc]
    ELSE [state |-> "invoked", name |-> name, args |-> args, with |-> args]

\* the function call of the provider's reply goes through _handle_tool_execution
DispatchCall ==
    /\ mode = "dispatch"
    /\ pending.state = "pending"
    /\ pending' = HandleToolCall(pending.name, pending.args)
    /\ UNCHANGED <<mode, solo, outbound, ledgerVars, storeVars, st, pageVars, turns>>

\* the provider's reply carries a function call
FunctionCalls ==
    {[state |-> "pending", name |-> name, args |-> args] :
        name \in ToolsMap \cup {UnknownTool}, args \in ToolArgs}

InitDispatch ==
    /\ mode = "dispatch"
    /\ LedgerAtRest
    /\ StoreAtRest
    /\ PageAtRest
    /\ PromptAtRest
    /\ SoloAtRest
    /\ pending \in FunctionCalls
    /\ turns = NoTurns
    /\ st = [s \in Sessions |-> NewSession]

NextDispatch == DispatchCall

SpecDispatch == InitDispatch /\ [][NextDispatch]_vars

\* the integer a "window" value stands for, if it is a numeric text or a float
\* with an integral value: digits with an optional sign and an optional
\* fraction of zeros
IsNumeral(cs) ==
    LET neg == cs # <<>> /\ cs[1] = "-"
        body == IF neg THEN Tail(cs) ELSE cs
        dot == {i \in 1..Len(body) : body[i] = "."}
    IN  \/ AllDigits(body)
        \/ /\ Cardinality(dot) = 1
           /\ LET d == CHOOSE i \in dot : TRUE IN
                /\ AllDigits(SubSeq(body, 1, d - 1))
                /\ AllDigits(SubSeq(body, d + 1, Len(body)))

NumeralWhole(cs) ==
    LET neg == cs[1] = "-"
        body == IF neg THEN Tail(cs) ELSE cs
        dot == {i \in 1..Len(body) : body[i] = "."}
        whole == IF dot = {} THEN body ELSE SubSeq(body, 1, (CHOOSE i \in dot : TRUE) - 1)
    IN  IF neg THEN -DigitsValue(whole) ELSE DigitsValue(whole)

NumeralFraction(cs) ==
    LET dot == {i \in 1..Len(cs) : cs[i] = "."} IN
    IF dot = {} THEN 0 ELSE DigitsValue(SubSeq(cs, (CHOOSE i \in dot : TRUE) + 1, Len(cs)))

StandsForInteger(v) ==
    CASE v.type = "float" -> v.tenths = 0
      [] v.type = "str" -> IsNumeral(v.chars) /\ NumeralFraction(v.chars) = 0
      [] OTHER -> FALSE

IntegerOf(v) == IF v.type = "float" THEN v.whole ELSE NumeralWhole(v.chars)

\* C13: a call to a registered tool whose "window" argument is a numeric text or
\* a float standing for an integer n invokes the tool with the int n, and with
\* every other argument as the provider gave it.
C13_WindowCoercion ==
    (/\ pending.state \in {"invoked", "raised", "skipped"}
     /\ pending.name \in ToolsMap
     /\ StandsForInteger(pending.args.window)) =>
        /\ pending.state = "invoked"
        /\ pending.with.window = IntValue(IntegerOf(pending.args.window))
        /\ pending.with.ticker = pending.args.ticker

(***************************************************************************)
(* The two ways of opening the provider session (SpecPolicy):              *)
(*   manual:    show_chatbot, lines 59-63, then process_ai_response        *)
(*   automatic: initialize_chat_session of src/modules/chatbot_model.py    *)
(***************************************************************************)
NotDone == [done |-> FALSE]

\* what a turn gave: the text and chart returned, the history in memory (and
\* saved) after it, the chart slot afterwards, the exception shown if any
TurnGave(text, chart, messages, slot, exc) ==
    [done |-> TRUE, text |-> text, chart |-> chart, messages |-> messages,
     slot |-> slot, exc |-> exc]

\* load_gemini_model() takes no parameter
LoadGeminiModel(kwargs) ==
    IF kwargs # {} THEN Raised("TypeError") ELSE Returned("model")

\* show_chatbot, lines 59-63: load_gemini_model(), then model.start_chat(history=...)
OpenManualSession ==
    LET m == LoadGeminiModel({}) IN
    IF m.ok THEN Returned("manual") ELSE m

\* initialize_chat_session: load_gemini_model(tools=tools_list), then
\* model.start_chat(enable_automatic_function_calling=True)
InitializeChatSession ==
    LET m == LoadGeminiModel({"tools"}) IN
    IF m.ok THEN Returned("automatic") ELSE m

\* process_ai_response on a session that hands function calls to the caller
ManualSendTurn(msgs, slot, reply, outcome, follow) ==
    CASE reply = "error" -> TurnGave(None, None, msgs, slot, "Processing Error")
      [] reply = "text" -> TurnGave(ReplyText, None, AppendText(msgs, ReplyText), slot, None)
      [] reply \in ToolsMap ->
            IF outcome = "raise" THEN TurnGave(None, None, msgs, slot, "Processing Error")
            ELSE LET stored == IF outcome = "chart" THEN "fresh" ELSE slot IN
                 IF follow = "error"
                 THEN TurnGave(None, None, msgs, stored, "Processing Error")
                 ELSE TurnGave(ReplyText, stored,
                               AppendToolAnswer(msgs, ReplyText,
                                                IF stored = None THEN None ELSE Fig),
                               None, None)
      [] OTHER -> TurnGave(None, None, msgs, slot, None)

\* process_ai_response on a session that resolves function calls inside
\* send_message: the tool runs there, and the reply that comes back is text
AutomaticSendTurn(msgs, slot, reply, outcome, follow) ==
    CASE reply = "error" -> TurnGave(None, None, msgs, slot, "Processing Error")
      [] reply = "text" -> TurnGave(ReplyText, None, AppendText(msgs, ReplyText), slot, None)
      [] reply \in ToolsMap ->
            IF outcome = "raise" THEN TurnGave(None, None, msgs, slot, "Processing Error")
            ELSE LET stored == IF outcome = "chart" THEN "fresh" ELSE slot IN
                 IF follow = "error"
                 THEN TurnGave(None, None, msgs, stored, "Processing Error")
                 ELSE TurnGave(ReplyText, None, AppendText(msgs, ReplyText), stored, None)
      [] OTHER -> TurnGave(None, None, msgs, slot, "Processing Error")

\* a turn with the session the way of opening it gives: none, if opening raised
SendTurn(session, msgs, slot, reply, outcome, follow) ==
    IF ~session.ok THEN TurnGave(None, None, msgs, slot, session.exc)
    ELSE IF session.value = "manual" THEN ManualSendTurn(msgs, slot, reply, outcome, follow)
    ELSE AutomaticSendTurn(msgs, slot, reply, outcome, follow)

ManualTurn ==
    /\ mode = "policy"
    /\ ~turns.manual.done
    /\ LET i == turns.input IN
        turns' = [turns EXCEPT !.manual =
                    SendTurn(OpenManualSession, i.history, i.slot, i.reply, i.outcome, i.follow)]
    /\ UNCHANGED <<mode, solo, outbound, ledgerVars, storeVars, st, pageVars, pending>>

AutomaticTurn ==
    /\ mode = "policy"
    /\ ~turns.automatic.done
    /\ LET i == turns.input IN
        turns' = [turns EXCEPT !.automatic =
                    SendTurn(InitializeChatSession, i.history, i.slot, i.reply, i.outcome, i.follow)]
    /\ UNCHANGED <<mode, solo, outbound, ledgerVars, storeVars, st, pageVars, pending>>

\* the history when the prompt arrives: empty, or one earlier turn
PriorHistories == {<<>>, AppendText(AppendUser(<<>>, PromptText), ReplyText)}

\* the same history, chart slot, provider answers and tool outcome for both
TurnInputs ==
    {i \in [history : {AppendUser(h, PromptText) : h \in PriorHistories},
            slot : {None, "stale"}, reply : ProviderReplies,
            outcome : {"ok", "chart", "raise"}, follow : {"text", "error"}] :
        IF i.reply \in ToolsMap THEN i.outcome \in ToolOutcomes(i.reply)
        ELSE i.outcome = "ok" /\ i.follow = "text"}

InitPolicy ==
    /\ mode = "policy"
    /\ LedgerAtRest
    /\ StoreAtRest
    /\ PageAtRest
    /\ PromptAtRest
    /\ SoloAtRest
    /\ pending = NoPending
    /\ \E i \in TurnInputs : turns = [input |-> i, manual |-> NotDone, automatic |-> NotDone]
    /\ st = [s \in Sessions |-> NewSession]

NextPolicy ==
    \/ ManualTurn
    \/ AutomaticTurn

SpecPolicy == InitPolicy /\ [][NextPolicy]_vars

(***************************************************************************)
(* The prompt on its way to the provider: show_chatbot, lines 73-89, and   *)
(* process_ai_response, line 101 (SpecPrompt)                              *)
(***************************************************************************)
\* a prompt is a sequence of words
Words == {"cek", "portofolio", "saya", "harga"}
Prompts == UNION {[1..k -> Words] : k \in 1..MaxWords}

\* what load_user_data and calculate_portfolio_performance give for the user:
\* no holdings, holdings without a valuation, valued holdings, or an exception
PortfolioStates == {"empty", "no_items", "valued", "raises"}

\* get_portfolio_context: the context payload, as a sequence of its parts
GetPortfolioContext(username, portfolio) ==
    CASE portfolio = "raises" -> <<"[SYSTEM ERROR in Portfolio Context]">>
      [] portfolio = "empty" -> <<"[SYSTEM INFO]: Portfolio is currently empty.">>
      [] portfolio = "no_items" -> <<"[SYSTEM INFO]: valuation returned no results.">>
      [] OTHER -> <<"=== INSTITUTIONAL PORTFOLIO SNAPSHOT ===", username,
                    "ASSET ALLOCATION TABLE", "ANALYST FRAMEWORK", "INSTRUCTION">>

\* process_ai_response, line 101: the text handed to chat_session.send_message
ProviderBound(user, prompt) == prompt

\* show_chatbot, lines 73-89, and process_ai_response, line 101: the prompt read
\* from the chat box reaches send_message
SendPrompt ==
    /\ mode = "prompt"
    /\ outbound.state = "typed"
    /\ outbound' = [outbound EXCEPT !.state = "sent",
                                    !.sent = ProviderBound(outbound.user, outbound.prompt)]
    /\ UNCHANGED <<mode, solo, ledgerVars, storeVars, st, pageVars, dispatchVars>>

InitPrompt ==
    /\ mode = "prompt"
    /\ LedgerAtRest
    /\ StoreAtRest
    /\ PageAtRest
    /\ DispatchAtRest
    /\ SoloAtRest
    /\ \E prompt \in Prompts, portfolio \in PortfolioStates :
            outbound = [state |-> "typed", user |-> Alice, prompt |-> prompt,
                        portfolio |-> portfolio, sent |-> <<>>]
    /\ st = [s \in Sessions |-> NewSession]

NextPrompt == SendPrompt

SpecPrompt == InitPrompt /\ [][NextPrompt]_vars

\* the portfolio keyword set of the design, and a prompt that matches it
PortfolioKeywords == {"portofolio"}
MatchesPortfolio(prompt) == \E i \in 1..Len(prompt) : prompt[i] \in PortfolioKeywords

\* C17: a prompt that matches the portfolio keyword set reaches the provider as
\* the valuation context of get_portfolio_context followed by the original prompt
\* verbatim; a prompt that matches no keyword reaches the provider unchanged.
C17_PortfolioContextInjected ==
    outbound.state = "sent" =>
        IF MatchesPortfolio(outbound.prompt)
        THEN outbound.sent =
                GetPortfolioContext(outbound.user, outbound.portfolio) \o outbound.prompt
        ELSE outbound.sent = outbound.prompt

\* C14: for the same prior history, chart slot, prompt, provider answers and tool
\* outcome, a turn on a manually opened session and a turn on a session opened by
\* initialize_chat_session return the same text and chart, leave the same messages
\* in the history, and leave the chart slot empty.
C14_PoliciesAgree ==
    (mode = "policy" /\ turns.manual.done /\ turns.automatic.done) =>
        /\ turns.manual.text = turns.automatic.text
        /\ turns.manual.chart = turns.automatic.chart
        /\ turns.manual.messages = turns.automatic.messages
        /\ (turns.manual.exc = None /\ turns.input.reply # UnknownTool) =>
                (turns.manual.slot = None /\ turns.automatic.slot = None)

(***************************************************************************)
(* Properties of the controller (Spec)                                     *)
(***************************************************************************)
Durable(s) == LoadHistory(files, st[s].username)

LastIsPrompt(msgs) ==
    /\ Len(msgs) > 0
    /\ msgs[Len(msgs)]["role"] = ROLE_USER
    /\ msgs[Len(msgs)]["content"] = PromptText

\* C4: increment_usage is called exactly once in a script run that appended and
\* saved a final assistant reply, and not at all in any other run (provider error,
\* tool error, unregistered tool name).
C4_IncrementIffReplied ==
    \A s \in Sessions :
        (st[s].pc = "idle") =>
            st[s].obs.incCalls = (IF st[s].obs.replied THEN 1 ELSE 0)

\* C5: a request rejected by the authentication check or by a quota check reaches
\* no send_message call and leaves quota_usage as it was; a free-tier user whose
\* quota_usage is 5 on the current day is denied by the check and no prompt of
\* that run goes to the provider.
C5_RejectedNeverSent ==
    \A s \in Sessions :
        LET o == st[s].obs IN
        /\ (st[s].pc # "idle") => (st[s].logged_in /\ st[s].username # NoUser)
        /\ (o.outcome = "access_denied") => (o.sends = 0 /\ o.incCalls = 0)
        /\ (o.checked = "denied") =>
                /\ st[s].pc \in {"init", "input", "idle"}
                /\ o.sends = 0 /\ o.incCalls = 0
                /\ UsageSeen(db, st[s].username).quota_usage = o.usageAtCheck.quota_usage
        /\ (o.usageAtCheck.tier = "free"
                /\ o.usageAtCheck.last_reset = o.usageAtCheck.day
                /\ o.usageAtCheck.quota_usage >= FREE_DAILY_LIMIT) => o.checked = "denied"
        /\ (o.sends > 0) => o.checked = "allowed"

\* usage 4, one completed turn, and the next run finds the quota exhausted
C5_Witness ==
    \E s \in Sessions :
        /\ st[s].obs.outcome = "read_only"
        /\ st[s].obs.checked = "denied"
        /\ st[s].obs.usageAtCheck.quota_usage = FREE_DAILY_LIMIT
        /\ CountAssistant(st[s].messages) = 1
        /\ st[s].chat_session.open

\* C10: when a provider call fails, the prompt is already in the history file (it
\* was saved before the provider was contacted), no assistant message is added,
\* quota_usage is unchanged, the error is shown and the run ends without sending
\* the prompt again.
C10_ProviderFailure ==
    \A s \in Sessions :
        LET o == st[s].obs IN
        /\ (st[s].pc \in {"send", "tool", "followup"}) =>
                /\ LastIsPrompt(Durable(s))
                /\ RoleContent(Durable(s)) = RoleContent(st[s].messages)
                /\ o.sends <= 1
        /\ (o.outcome = "error") =>
                /\ st[s].pc = "idle"
                /\ LastIsPrompt(Durable(s))
                /\ RoleContent(Durable(s)) = RoleContent(st[s].messages)
                /\ ~o.replied
                /\ CountAssistant(st[s].messages) = o.asst0
                /\ CountAssistant(Durable(s)) = o.asst0
                /\ o.incCalls = 0
                /\ UsageSeen(db, st[s].username).quota_usage = o.usageAtSend.quota_usage
                /\ o.sends \in {1, 2}

\* the follow-up call of a tool turn failed after an earlier turn had completed
C10_Witness ==
    \E s \in Sessions :
        /\ st[s].obs.outcome = "error"
        /\ st[s].obs.sends = 2
        /\ st[s].obs.asst0 = 1
        /\ Len(Durable(s)) = 3

\* C8: the chart slot (last_chart) is empty when a turn begins, and a chart
\* attached to a turn's assistant message was stored by a tool that ran in that
\* turn.
C8_ChartSlotClean ==
    \A s \in Sessions :
        /\ (st[s].pc = "send") => st[s].last_chart = None
        /\ st[s].obs.chartFrom # "stale"

IsFreeToday(users, u) ==
    /\ u \in DOMAIN users
    /\ users[u].tier = "free"
    /\ users[u].last_reset = today

\* C9: every assistant message of an in-memory or durable history carries the
\* final text the provider returned for its turn, and a turn whose provider call,
\* tool or follow-up call failed adds no assistant message (the greeting the page
\* stores when its log is empty is left aside).
C9_AssistantFromProvider ==
    /\ \A s \in Sessions :
            /\ \A i \in 1..Len(st[s].messages) :
                    st[s].messages[i]["role"] = ROLE_ASSISTANT
                        => st[s].messages[i]["content"] = ReplyText
            /\ \A i \in 1..Len(Durable(s)) :
                    Durable(s)[i]["role"] = ROLE_ASSISTANT
                        => Durable(s)[i]["content"] = ReplyText
            /\ (st[s].obs.outcome = "error") =>
                    /\ CountAssistant(st[s].messages) = st[s].obs.asst0
                    /\ CountAssistant(Durable(s)) = st[s].obs.asst0
    /\ \A i \in 1..Len(ui.messages) :
            ui.messages[i]["role"] = ROLE_ASSISTANT
                => ui.messages[i]["content"] \in {ReplyText, WelcomeText}
    /\ \A i \in 1..Len(chat_logs) :
            chat_logs[i].role = ROLE_MODEL
                => chat_logs[i].content \in {ReplyText, WelcomeText}
    /\ (ui.obs.outcome \in {"provider_error", "tool_error", "followup_error"}) =>
            CountAssistant(ui.messages) = ui.obs.asst0

\* C11: when a registered tool raises while it is executed, the exception is turned
\* into a result that goes back to the provider in the follow-up call: the run is
\* about to make that call or has made it, and is not ended by the exception.
C11_ToolErrorIsSoft ==
    \A s \in Sessions :
        (st[s].obs.tool = "raise") =>
            st[s].pc = "followup" \/ st[s].obs.sends = 2

\* the run put a message about the turn before the user: the assistant's reply,
\* or one of st.error / render_access_denied
UserTold(sess) ==
    \/ sess.obs.replied
    \/ sess.obs.outcome \in {"error", "quota_stop", "unavailable", "access_denied"}

\* C12: when the provider names a tool that is not in the registry, no tool is
\* invoked, the run ends without an exception, and the user is shown a message
\* for that turn.
C12_UnknownToolApology ==
    \A s \in Sessions :
        (st[s].obs.reply = UnknownTool) =>
            /\ st[s].obs.tool = "none"
            /\ st[s].obs.sends = 1
            /\ (st[s].pc = "idle") => UserTold(st[s])

\* C15: when _load_db fails at a quota check the check denies and no prompt is
\* consumed, and whatever read or write of users.json fails, a turn that was
\* completed (its reply appended and saved) is counted in quota_usage.
C15_LedgerFailureDenies ==
    \A s \in Sessions :
        LET o == st[s].obs
            u == st[s].username
        IN
        /\ (o.read = "fails" /\ st[s].pc \in {"init", "usersave"}) => o.checked = "denied"
        /\ (o.read = "fails" /\ o.checked = "denied") => o.sends = 0
        /\ (st[s].pc = "idle" /\ o.replied /\ u \in DOMAIN db /\ db[u].tier = "free") =>
                db[u].quota_usage = o.usageAtSend.quota_usage + 1

\* C16: Reset is idempotent and empties the history: once "Reset Chat" has run,
\* running it again changes neither the in-memory history nor the durable
\* history nor the session state, and both the in-memory history and the
\* durable history of the user are empty.
C16_ResetIdempotent ==
    \A s \in Sessions :
        (st[s].pc = "idle" /\ st[s].obs.outcome = "reset") =>
            /\ SidebarReset(st[s]) = st[s]
            /\ st[s].messages = <<>>
            /\ LoadHistory(files, st[s].username) = <<>>

\* C20: when the quota check made right before a prompt is consumed answers "not
\* allowed", the prompt is dropped: the run stops there, the prompt is not appended
\* to the in-memory history, nothing is written to the history file, nothing was
\* sent to the provider, and users.json (quota_usage) is unchanged.
C20_DeniedPromptDropped ==
    [][\A s \in Sessions :
        (st[s].pc = "check2b" /\ st'[s].pc # "check2b" /\ st'[s].obs.checked = "denied") =>
            /\ st'[s].pc = "idle"
            /\ st'[s].obs.outcome = "quota_stop"
            /\ st'[s].messages = st[s].messages
            /\ files' = files
            /\ st'[s].obs.sends = 0
            /\ db' = db]_vars

\* two sessions of a user with quota_usage 4 both show the input box; one completes
\* a turn, and the prompt typed into the other is stopped by the second check
C20_Witness ==
    \E s \in Sessions :
        /\ st[s].pc = "idle"
        /\ st[s].obs.outcome = "quota_stop"
        /\ st[s].obs.checked = "denied"
        /\ st[s].is_allowed
        /\ st[s].obs.usageAtCheck.quota_usage = FREE_DAILY_LIMIT
        /\ st[s].obs.sends = 0

\* C22: Reset clears the in-memory and the durable history and discards the
\* provider handle: right after "Reset Chat", load_history of the user returns the
\* empty list, no provider session is held any more, and the history a provider
\* session would be seeded with on the next opening or after a reload is empty.
C22_ResetClearsAll ==
    \A s \in Sessions :
        (st[s].pc = "idle" /\ st[s].obs.outcome = "reset") =>
            /\ st[s].messages = <<>>
            /\ Durable(s) = <<>>
            /\ ~st[s].chat_session.open
            /\ ConvertToGeminiFormat(Durable(s)) = <<>>

\* C24: a turn whose provider call times out (send_message raises, for the prompt
\* or for the tool result) leaves all state as if the turn had not started: the
\* in-memory history, the history file, quota_usage and the chart slot are what they
\* were when the prompt was consumed, and no assistant message was saved.
C24_TimeoutLeavesNoTrace ==
    \A s \in Sessions :
        LET o == st[s].obs IN
        (st[s].pc = "idle" /\ o.outcome = "error" /\ o.sends > 0 /\ o.tool # "raise") =>
            /\ st[s].messages = o.before.messages
            /\ Durable(s) = o.before.durable
            /\ UsageSeen(db, st[s].username).quota_usage = o.usageAtSend.quota_usage
            /\ st[s].last_chart = o.before.chart
            /\ CountAssistant(st[s].messages) = o.asst0

\* C26: within one turn at most one tool is dispatched and at most two messages go
\* to the provider: a tool runs only after the provider's first reply named it and
\* before the one follow-up send, and no second tool is dispatched.
C26_OneToolPerTurn ==
    \A s \in Sessions :
        LET o == st[s].obs IN
        /\ o.tools <= 1
        /\ o.sends <= 2
        /\ (o.tools = 1) => (o.sends >= 1 /\ o.reply \in ToolsMap)
        /\ (o.sends = 2) => (o.tools = 1 /\ o.tool \in {"ok", "chart"})
        /\ (st[s].pc = "tool") => (o.sends = 1 /\ o.tools = 0)
        /\ (st[s].pc = "followup") => (o.sends = 1 /\ o.tools = 1)

\* a turn with a chart tool: prompt, tool, follow-up, reply
C26_Witness ==
    \E s \in Sessions :
        /\ st[s].pc = "idle"
        /\ st[s].obs.outcome = "ok"
        /\ st[s].obs.replied
        /\ st[s].obs.tools = 1
        /\ st[s].obs.sends = 2
        /\ st[s].obs.tool = "chart"

\* a is an initial segment of b
IsPrefixOf(a, b) == Len(a) <= Len(b) /\ \A i \in 1..Len(a) : a[i] = b[i]

\* b is a, or a with one message appended
GrowsByOne(a, b) == IsPrefixOf(a, b) /\ Len(b) <= Len(a) + 1

\* one step of session s, seen from the list it renders: Reset empties the list, a
\* login of another user replaces it by that user's file, every other step leaves it
\* alone or appends one message, the prompt at lines 82-86, else the answer
MessagesStep(s) ==
    LET m == st[s].messages
        n == st'[s].messages
    IN  IF ResetChat(s) THEN n = <<>>
        ELSE IF st'[s].loaded_user # st[s].loaded_user
        THEN n = LoadHistory(files, st'[s].username)
        ELSE /\ GrowsByOne(m, n)
             /\ Len(n) = Len(m) + 1 =>
                    IF st[s].pc = "usersave" THEN n[Len(n)]["role"] = ROLE_USER
                    ELSE /\ n[Len(n)]["role"] = ROLE_ASSISTANT
                         /\ m[Len(m)]["role"] = ROLE_USER

\* one step, seen from the history file of user u: Reset empties it, every other
\* step leaves it alone or appends one message
DurableStep(u) ==
    LET d == LoadHistory(files, u)
        e == LoadHistory(files, u)'
    IN  IF \E s \in Active : ResetChat(s) /\ st[s].username = u THEN e = <<>>
        ELSE GrowsByOne(d, e)

\* C27: the history is append-only between Resets: a turn appends the prompt and
\* then at most one answer at the end, no step other than Reset changes, reorders
\* or removes an earlier message of the rendered list or of the history file, and
\* Reset leaves both empty.
C27_AppendOnly ==
    [][(\A s \in Active : MessagesStep(s)) /\ (\A u \in Usernames : DurableStep(u))]_vars

\* a script run of session s has passed lines 49-66
PastInit(s) == st[s].pc \notin {"idle", "check1", "check1b", "init"}

\* every prompt of the message list msgs was typed by user u
OwnPrompts(msgs, u) ==
    \A i \in 1..Len(msgs) : msgs[i]["role"] = ROLE_USER => msgs[i]["content"] = PromptOf(u)

\* C28: when the identity of a session changes from A to B, the rendered list is
\* replaced by B's history file and A's provider session is discarded before
\* anything is rendered or processed: past lines 49-66 the list is the list of the
\* current user and reads as that user's file, and no message of another user is
\* in the list, in the current user's file or in the seed of the provider session.
C28_SwitchReloads ==
    \A s \in Active :
        PastInit(s) =>
            /\ st[s].loaded_user = st[s].username
            /\ RoleContent(st[s].messages) = RoleContent(Durable(s))
            /\ OwnPrompts(st[s].messages, st[s].username)
            /\ OwnPrompts(Durable(s), st[s].username)
            /\ st[s].chat_session.open =>
                    \A i \in 1..Len(st[s].chat_session.history) :
                        st[s].chat_session.history[i]["role"] = ROLE_USER =>
                            st[s].chat_session.history[i]["parts"] =
                                <<PromptOf(st[s].username)>>

\* the run of session s has been admitted by the re-check and has not ended
InTurn(s) == st[s].pc \in {"usersave", "send", "tool", "followup", "reply", "inc", "incb"}

\* quota_usage of a free-tier user is within 0..FREE_DAILY_LIMIT, and no admitted
\* turn of that user is under way when it equals the limit
QuotaInRange(u) ==
    (u \in DOMAIN db /\ db[u].tier = "free") =>
        /\ db[u].quota_usage \in 0..FREE_DAILY_LIMIT
        /\ \A s \in Active :
                (InTurn(s) /\ st[s].username = u) => db[u].quota_usage < FREE_DAILY_LIMIT

\* a step changes quota_usage of u only by +1, in the increment_usage call that ends
\* an admitted turn of u, or to 0, in a check made on a new day
QuotaStep(u) ==
    (u \in DOMAIN db /\ u \in DOMAIN db' /\ db'[u].quota_usage # db[u].quota_usage) =>
        \/ /\ db'[u].quota_usage = db[u].quota_usage + 1
           /\ \E s \in Active :
                /\ st[s].pc = "incb" /\ st[s].username = u
                /\ st[s].obs.checked = "allowed" /\ st[s].obs.sends >= 1
                /\ st'[s].pc = "idle"
           /\ db'[u].last_reset = db[u].last_reset
        \/ /\ db'[u].quota_usage = 0
           /\ db[u].last_reset # today
           /\ db'[u].last_reset = today
           /\ \E s \in Active : st[s].pc \in {"check1b", "check2b"} /\ st[s].username = u

\* C30: in every sequential execution the quota_usage of a free-tier user stays
\* within 0..5, changes only by +1 after an admitted turn or to 0 at a day
\* rollover, and no turn is admitted while it equals 5.
C30_QuotaBounded ==
    [][\A u \in Usernames : QuotaInRange(u) /\ QuotaInRange(u)' /\ QuotaStep(u)]_vars

\* the user has used the whole allowance through admitted turns and is refused
C30_Witness ==
    \E s \in Active :
        /\ st[s].pc = "idle" /\ st[s].obs.checked = "denied"
        /\ st[s].username = Alice
        /\ db[Alice].quota_usage = FREE_DAILY_LIMIT
        /\ incs[Alice] = FREE_DAILY_LIMIT

\* C21: every error raised during a turn (provider failure, tool failure, malformed
\* or empty reply) ends the run with a message shown to the user and leaves the
\* conversation resumable: the script run is over, the user is still logged in with
\* the provider session open, and the provider session is not left awaiting the
\* result of a tool call.
C21_ErrorsLeaveSessionReady ==
    \A s \in Sessions :
        (st[s].obs.sends > 0 /\ st[s].obs.outcome = "error") =>
            /\ st[s].pc = "idle"
            /\ ~AccessDenied(st[s])
            /\ st[s].chat_session.open
            /\ st[s].call = NoCall
            /\ ~st[s].chat_session.awaiting

\* C19: users are independent: under any interleaving of the ledger operations of
\* two users, whenever a user has no operation under way, that user's ledger record
\* (tier, quota_usage, last_reset) is what the user's own operations alone produce.
C19_UsersIndependent ==
    \A s \in Sessions :
        (mode = "shared" /\ st[s].pc = "idle") =>
            LET u == UserOf(s) IN
            /\ (u \in DOMAIN db) = (u \in DOMAIN solo)
            /\ u \in DOMAIN db =>
                    /\ db[u].tier = solo[u].tier
                    /\ db[u].quota_usage = solo[u].quota_usage
                    /\ db[u].last_reset = solo[u].last_reset

\* the messages the sessions of user u appended and saved
SavedBy(u) ==
    (IF st[1].username = u THEN st[1].saved ELSE 0)
        + (IF st[2].username = u THEN st[2].saved ELSE 0)

\* C18: with two sessions of the same user, no message is lost: once both sessions
\* have completed their script runs, the durable history of the user contains every
\* user and assistant message that either session appended and saved.
C18_NoMessageLost ==
    (\A s \in Sessions : st[s].pc = "idle") =>
        \A u \in LoginUsers : Len(LoadHistory(files, u)) >= SavedBy(u)

\* C6: with two sessions of the same free-tier user on one day, the
\* check-then-increment sequences of the sessions exclude each other, that is: no
\* more than FREE_DAILY_LIMIT turns of the day are admitted and counted, and every
\* increment_usage call of the day is reflected in quota_usage (no lost update).
C6_NoLostUpdate ==
    \A u \in Usernames :
        IsFreeToday(db, u) =>
            /\ incs[u] <= FREE_DAILY_LIMIT
            /\ db[u].quota_usage <= FREE_DAILY_LIMIT
            /\ db[u].quota_usage = incs[u]

(***************************************************************************)
(* Properties of the ledger (SpecLedger)                                   *)
(***************************************************************************)
\* C1: for a free-tier user whose quota_usage was set to 0 today, after exactly
\* FREE_DAILY_LIMIT (5) increment_usage calls on that day check_quota_available
\* returns allowed = False with the fixed denial message; after fewer than 5 it
\* returns allowed = True with the remaining count 5 - quota_usage.
C1_QuotaCap ==
    \A u \in Usernames :
        IsFreeToday(db, u) =>
            LET r == CheckQuotaAvailable(db, today, u) IN
            /\ db[u].quota_usage = incs[u]
            /\ (incs[u] = FREE_DAILY_LIMIT) =>
                    (~r.allowed /\ r.status = StatusExhausted)
            /\ (incs[u] < FREE_DAILY_LIMIT) =>
                    (r.allowed /\ r.status = StatusRemaining(FREE_DAILY_LIMIT - db[u].quota_usage))
            /\ r.db = db
            /\ (ret.op = "check" /\ ret.user = u /\ IsFreeToday(ret.before, u)) =>
                    (ret.allowed = r.allowed /\ ret.status = r.status)

\* the fifth increment of the day has happened and the check that followed denied
C1_Witness ==
    \E u \in Usernames :
        /\ IsFreeToday(db, u)
        /\ incs[u] = FREE_DAILY_LIMIT
        /\ ret.op = "check" /\ ret.user = u
        /\ ~ret.allowed /\ ret.status = StatusExhausted

\* C2: for a pro-tier user check_quota_available returns allowed = True whatever
\* quota_usage and last_reset are (also after the free quota was exhausted and the
\* user was then upgraded), and upgrade_to_pro applied twice leaves the record that
\* one application leaves.
C2_ProAlwaysAllowed ==
    /\ \A u \in DOMAIN db :
            db[u].tier = "pro" =>
                LET r == CheckQuotaAvailable(db, today, u) IN
                r.allowed /\ r.status = StatusUnlimited /\ r.db = db
    /\ (ret.op = "check" /\ ret.user \in DOMAIN ret.before
            /\ ret.before[ret.user].tier = "pro") => (ret.allowed /\ db = ret.before)
    /\ \A u \in Usernames :
            UpgradeToPro(UpgradeToPro(db, u), u) = UpgradeToPro(db, u)
    /\ (ret.op = "upgrade" /\ ret.user \in DOMAIN ret.before) =>
            /\ db = [ret.before EXCEPT ![ret.user].tier = "pro"]
            /\ UpgradeToPro(db, ret.user) = db

\* a user who used up the free quota was upgraded and then checked
C2_Witness ==
    \E u \in DOMAIN db :
        /\ db[u].tier = "pro"
        /\ db[u].quota_usage >= FREE_DAILY_LIMIT
        /\ db[u].last_reset # today
        /\ ret.op = "check" /\ ret.user = u /\ ret.allowed

\* C3: for a free-tier user whose last_reset differs from today, the first
\* check_quota_available of the day writes quota_usage = 0 and last_reset = today to
\* users.json and returns allowed = True with the reset status, whatever
\* quota_usage was before, and without any turn having to follow.
C3_DayRollover ==
    /\ (ret.op = "check" /\ ret.user \in DOMAIN ret.before
            /\ ret.before[ret.user].tier = "free"
            /\ ret.before[ret.user].last_reset # today) =>
                /\ ret.allowed
                /\ ret.status = StatusReset
                /\ db = [ret.before EXCEPT ![ret.user].quota_usage = 0,
                                           ![ret.user].last_reset = today]
    /\ \A u \in DOMAIN db :
            (db[u].tier = "free" /\ db[u].last_reset # today) =>
                LET r == CheckQuotaAvailable(db, today, u) IN
                /\ r.allowed /\ r.saved
                /\ r.db[u].quota_usage = 0 /\ r.db[u].last_reset = today

\* the first check of a new day for a user whose quota was exhausted the day before
C3_Witness ==
    /\ ret.op = "check" /\ ret.user \in DOMAIN ret.before
    /\ ret.before[ret.user].tier = "free"
    /\ ret.before[ret.user].last_reset # today
    /\ ret.before[ret.user].quota_usage = FREE_DAILY_LIMIT
    /\ ret.allowed
    /\ db[ret.user].quota_usage = 0

====
